---------------------------- MODULE Spec2Model ----------------------------
(***************************************************************************)
(* A model of src/main.py: batch transcription of audio files, with        *)
(* silence-aware chunking of oversized files (split_audio_file,            *)
(* detect_silence), per-chunk transcription (transcribe_audio), the two    *)
(* resume paths of transcribe_large_audio and merge_transcripts.           *)
(*                                                                         *)
(* Conventions.  Times are integer milliseconds, as pydub reports them.    *)
(* File sizes are whole megabytes.  Transcript times (seconds, floats in   *)
(* the code) are counted in tenths of a second.  A file name is the        *)
(* sequence of its characters, so that prefix tests, suffix tests and      *)
(* sorted() see what Python sees.  A dict is a function; dict.get is Get.  *)
(***************************************************************************)
EXTENDS Integers, Sequences, FiniteSets, TLC

VARIABLES
    pc,                     \* control point of the run
    audio_paths,            \* main: the batch found in data/
    file_index,             \* main: position of the for loop in audio_paths
    data_chunks,            \* the files of data/chunks
    output_chunks,          \* the files of output/chunks
    output_files,           \* the .txt transcripts written to output/
    submitted,              \* sizes (MB) of the files sent to the Whisper client
    api_calls,              \* number of client.audio.transcriptions.create calls
    result,                 \* value returned by transcribe_large_audio
    now,                    \* the wall clock, in seconds
    failures,               \* environment failures injected so far
    file_size,              \* split_audio_file: size of the source in MB
    total_duration_ms,      \* split_audio_file / detect_silence: len(audio)
    target_chunk_duration,  \* split_audio_file
    non_silent_ranges,      \* detect_silence: what detect_nonsilent reported
    silence_periods,        \* split_audio_file: detect_silence's answer
    start_pos,              \* split_audio_file
    current_chunk,          \* split_audio_file
    chunk_paths,            \* split_audio_file: paths returned / being built
    chunk_ranges,           \* split_audio_file: [start, end, by] of every chunk cut
    i,                      \* transcribe_large_audio: enumerate() counter
    transcripts,            \* transcribe_large_audio / merge_transcripts: the list
    outcomes,               \* what happened to each chunk of the file being transcribed
    path                    \* the branch transcribe_large_audio took for the file

vars == <<pc, audio_paths, file_index, data_chunks, output_chunks, output_files,
          submitted, api_calls, result, now, failures, file_size,
          total_duration_ms, target_chunk_duration, non_silent_ranges,
          silence_periods, start_pos, current_chunk, chunk_paths, chunk_ranges,
          i, transcripts, outcomes, path>>

driverVars == <<audio_paths, file_index, output_files>>
storeVars  == <<data_chunks, output_chunks>>
clientVars == <<submitted, api_calls>>
splitVars  == <<file_size, total_duration_ms, target_chunk_duration,
                non_silent_ranges, silence_periods, start_pos, current_chunk,
                chunk_paths, chunk_ranges>>
loopVars   == <<i, transcripts>>
histVars   == <<outcomes, path>>

\* Python's None, and an exception that leaves a function, as values a dict
\* can be compared with
None == [none |-> TRUE]
Raised(exception) == [raised |-> exception]

-----------------------------------------------------------------------------
(* Bounds of the model *)

MaxDuration == 5      \* longest small timeline, in ms
MaxRanges == 2        \* most voiced ranges in a small timeline
MaxChunks == 14       \* cap on the iterations of the cut-point loop
MaxFailures == 2      \* most injected failures in a run
MaxClock == 1         \* most clock ticks in a run
MaxFragments == 3     \* longest list given to merge_transcripts alone
MaxBatch == 2         \* most source files in data/

(* Program constants *)

target_size_mb == 20
size_tolerance_mb == 2

\* the ceiling of the remote API, in MB
ApiLimitMB == 25

-----------------------------------------------------------------------------
(* Generic helpers *)

Min(a, b) == IF a <= b THEN a ELSE b
Abs(x) == IF x < 0 THEN -x ELSE x
Range(s) == {s[k] : k \in DOMAIN s}
Last(s) == s[Len(s)]

\* dict.get(key, default)
Get(d, key, default) == IF key \in DOMAIN d THEN d[key] ELSE default

-----------------------------------------------------------------------------
(* detect_silence, main.py 167-200 *)

detect_silence_mut_no_tail(audio_len, ranges) ==
    IF ranges = <<>> THEN << <<0, audio_len>> >>
    ELSE (IF ranges[1][1] > 0 THEN << <<0, ranges[1][1]>> >> ELSE <<>>)
         \o [k \in 1..(Len(ranges) - 1) |-> <<ranges[k][2], ranges[k + 1][1]>>]

detect_silence(audio_len, ranges) ==
    IF ranges = <<>> THEN << <<0, audio_len>> >>
    ELSE (IF ranges[1][1] > 0 THEN << <<0, ranges[1][1]>> >> ELSE <<>>)
         \o [k \in 1..(Len(ranges) - 1) |-> <<ranges[k][2], ranges[k + 1][1]>>]
         \o (IF Last(ranges)[2] < audio_len
             THEN << <<Last(ranges)[2], audio_len>> >> ELSE <<>>)


-----------------------------------------------------------------------------
(* File names as character sequences *)

\* the characters that occur in names, in code-point order
Alphabet == <<".", "0", "1", "2", "3", "4", "5", "6", "7", "8", "9", "_",
              "a", "b", "c", "d", "e", "f", "g", "h", "i", "j", "k", "l", "m",
              "n", "o", "p", "q", "r", "s", "t", "u", "v", "w", "x", "y", "z">>

\* the rank of a character of the alphabet, in place of its code point
OrdTable == [c \in Range(Alphabet) |-> CHOOSE n \in 1..Len(Alphabet) : Alphabet[n] = c]
Ord(c) == OrdTable[c]

Digit(d) == Alphabet[d + 2]

RECURSIVE Decimal(_)
\* str(n) of a natural number, as in an f-string
Decimal(n) == IF n < 10 THEN <<Digit(n)>>
              ELSE Decimal(n \div 10) \o <<Digit(n % 10)>>

\* Python's < on strings: the first differing character decides, a proper
\* prefix is smaller
StrLess(a, b) ==
    LET differ == {n \in 1..Min(Len(a), Len(b)) : a[n] # b[n]}
    IN  IF differ = {} THEN Len(a) < Len(b)
        ELSE LET n == CHOOSE m \in differ : \A k \in differ : m <= k
             IN  Ord(a[n]) < Ord(b[n])

StartsWith(s, prefix) ==
    Len(prefix) <= Len(s) /\ SubSeq(s, 1, Len(prefix)) = prefix

EndsWith(s, suffix) ==
    Len(suffix) <= Len(s)
    /\ SubSeq(s, Len(s) - Len(suffix) + 1, Len(s)) = suffix

\* os.path.splitext(os.path.basename(path))[0]: the name up to its last dot
\* (a name with no dot, or only a leading one, is kept whole)
BaseName(name) ==
    LET dots == {n \in 2..Len(name) : name[n] = "."}
    IN  IF dots = {} THEN name
        ELSE SubSeq(name, 1, (CHOOSE n \in dots : \A m \in dots : m <= n) - 1)

\* sorted(os.listdir(dir)), restricted to the names given
SortedNames(names) ==
    [n \in 1..Cardinality(names) |->
        CHOOSE x \in names : Cardinality({y \in names : StrLess(y, x)}) = n - 1]

Str_chunk == <<"_", "c", "h", "u", "n", "k">>
Str_mp3 == <<".", "m", "p", "3">>
Str_json == <<".", "j", "s", "o", "n">>

\* f"{file_name}_chunk_{current_chunk}.mp3", main.py 151
ChunkMp3Name(base, n) == base \o Str_chunk \o <<"_">> \o Decimal(n) \o Str_mp3

-----------------------------------------------------------------------------
(* split_audio_file, main.py 86-165 *)

\* the source file the driver is at
CurrentFile == audio_paths[file_index]

\* math.floor(total_duration_ms * (target_size_mb / file_size)), main.py 103
TargetChunkDuration(total, size) == (total * target_size_mb) \div size

\* abs(silence_start - start_pos) / 1000 * (file_size / total_duration_ms)
\*     <= target_size_mb + size_tolerance_mb, main.py 136, cleared of fractions
WithinBudget(silence_start, start, size, total) ==
    Abs(silence_start - start) * size
        <= (target_size_mb + size_tolerance_mb) * 1000 * total

\* the index in silence_periods that the for loop of main.py 133-138 leaves in
\* closest_silence, or 0 when it leaves None: the first of the qualifying
\* silences at the least distance from ideal_end_pos
ClosestSilence(periods, start, ideal, size, total) ==
    LET qualifying == {k \in 1..Len(periods) :
                          /\ periods[k][1] > start
                          /\ WithinBudget(periods[k][1], start, size, total)}
        dist(k) == Abs(periods[k][1] - ideal)
    IN  IF qualifying = {} THEN 0
        ELSE CHOOSE k \in qualifying :
                \A j \in qualifying :
                    dist(k) < dist(j) \/ (dist(k) = dist(j) /\ k <= j)

\* end_pos as "always the ideal end", ignoring the end of the timeline
EndPos_mut_no_clamp(periods, start, target, size, total) ==
    LET ideal == start + target
        k == ClosestSilence(periods, start, ideal, size, total)
    IN  IF k # 0 THEN [end |-> periods[k][1], by |-> "silence"]
        ELSE [end |-> ideal, by |-> "ideal"]

\* end_pos of one iteration, main.py 122-144, with the branch that chose it
EndPos(periods, start, target, size, total) ==
    LET ideal == start + target
        k == ClosestSilence(periods, start, ideal, size, total)
    IN  IF ideal >= total THEN [end |-> total, by |-> "last"]
        ELSE IF k # 0 THEN [end |-> periods[k][1], by |-> "silence"]
        ELSE [end |-> ideal, by |-> "ideal"]

\* size in MB of the file chunk.export writes, taking the source's bitrate as
\* constant, the assumption main.py 103 makes
ExportedSizeMB(start, end, size, total) == ((end - start) * size) \div total

\* main.py 91-119: the size test, the decode, the sizing and the silence map
SplitBegin ==
    /\ pc = "split"
    /\ LET f == CurrentFile IN
       IF f.size_mb <= target_size_mb + size_tolerance_mb
       THEN /\ chunk_paths' = << [dir |-> "data", name |-> f.name] >>
            /\ pc' = "split_return"
            /\ UNCHANGED <<file_size, total_duration_ms, target_chunk_duration,
                           non_silent_ranges, silence_periods, start_pos,
                           current_chunk, chunk_ranges>>
       ELSE IF ~f.decodable
       THEN \* AudioSegment.from_file raises; nothing up to main catches it
            /\ pc' = "crashed"
            /\ UNCHANGED splitVars
       ELSE /\ file_size' = f.size_mb
            /\ total_duration_ms' = f.duration_ms
            /\ target_chunk_duration' = TargetChunkDuration(f.duration_ms, f.size_mb)
            /\ non_silent_ranges' = f.non_silent
            /\ silence_periods' = detect_silence(f.duration_ms, f.non_silent)
            /\ start_pos' = 0
            /\ current_chunk' = 1
            /\ chunk_paths' = <<>>
            /\ chunk_ranges' = <<>>
            /\ pc' = "split_loop"
    /\ UNCHANGED <<driverVars, storeVars, clientVars, result, now, failures,
                   loopVars, histVars>>

\* one iteration of the while loop, main.py 121-163
SplitStep ==
    /\ pc = "split_loop"
    /\ start_pos < total_duration_ms
    /\ Len(chunk_ranges) < MaxChunks
    /\ LET e == EndPos(silence_periods, start_pos, target_chunk_duration,
                       file_size, total_duration_ms)
           name == ChunkMp3Name(BaseName(CurrentFile.name), current_chunk)
           chunk == [name |-> name,
                     size_mb |-> ExportedSizeMB(start_pos, e.end, file_size,
                                                total_duration_ms),
                     content |-> current_chunk]
       IN  /\ data_chunks' = {c \in data_chunks : c.name # name} \cup {chunk}
           /\ chunk_paths' = Append(chunk_paths, [dir |-> "chunks", name |-> name])
           /\ chunk_ranges' = Append(chunk_ranges,
                                     [start |-> start_pos, end |-> e.end, by |-> e.by])
           /\ start_pos' = e.end
           /\ current_chunk' = current_chunk + 1
    /\ UNCHANGED <<pc, driverVars, output_chunks, clientVars, result, now, failures,
                   file_size, total_duration_ms, target_chunk_duration,
                   non_silent_ranges, silence_periods, loopVars, histVars>>

\* the loop test fails: return chunk_paths, main.py 121 and 165
SplitReturn ==
    /\ pc = "split_loop"
    /\ start_pos >= total_duration_ms
    /\ pc' = "split_return"
    /\ UNCHANGED <<driverVars, storeVars, clientVars, result, now, failures,
                   splitVars, loopVars, histVars>>

-----------------------------------------------------------------------------
(* Inputs: timelines and source files *)

ScenarioDuration == 60 * 1000
ScenarioPoints == {0, 29800, 30200, 59000, 60000}

\* the instants a timeline of the given length may change between voiced and silent
Points(total) == IF total = ScenarioDuration THEN ScenarioPoints ELSE 0..total

\* lists of non-empty voiced ranges, sorted and non-overlapping (they may touch)
NonSilentLists(total) ==
    LET pairs == {p \in Points(total) \X Points(total) : p[1] < p[2]}
    IN  {r \in UNION {[1..n -> pairs] : n \in 0..MaxRanges} :
            \A k \in 1..(Len(r) - 1) : r[k][2] <= r[k + 1][1]}

Name_a_mp3 == <<"a", ".", "m", "p", "3">>
Name_a_wav == <<"a", ".", "w", "a", "v">>
Name_b_mp3 == <<"b", ".", "m", "p", "3">>

SmallSizes == {22, 23, 30, 40, 50, 110}

\* the source files split_audio_file is exercised on: every small timeline and
\* every timeline of the 60 s scenario, at every size
SplitFiles ==
    UNION {{[name |-> Name_a_mp3, size_mb |-> s, decodable |-> TRUE,
             duration_ms |-> t, non_silent |-> r] :
                s \in SmallSizes, r \in NonSilentLists(t)} :
           t \in (0..MaxDuration) \cup {ScenarioDuration}}

-----------------------------------------------------------------------------
(* Specification of split_audio_file alone: one call on one source file *)

IdleSplit ==
    /\ file_size = 0
    /\ total_duration_ms = 0
    /\ target_chunk_duration = 0
    /\ non_silent_ranges = <<>>
    /\ silence_periods = <<>>
    /\ start_pos = 0
    /\ current_chunk = 1
    /\ chunk_paths = <<>>
    /\ chunk_ranges = <<>>

IdleDriver ==
    /\ data_chunks = {}
    /\ output_chunks = {}
    /\ output_files = {}
    /\ submitted = {}
    /\ api_calls = 0
    /\ result = None
    /\ now = 0
    /\ failures = 0
    /\ i = 0
    /\ transcripts = <<>>
    /\ outcomes = <<>>
    /\ path = "none"

SplitInit ==
    /\ pc = "split"
    /\ \E f \in SplitFiles : audio_paths = <<f>>
    /\ file_index = 1
    /\ IdleSplit
    /\ IdleDriver

SplitNext == SplitBegin \/ SplitStep \/ SplitReturn

SpecSplit == SplitInit /\ [][SplitNext]_vars

\* the call is past the size test of main.py 95 and has decoded the file
Splitting ==
    /\ pc \in {"split_loop", "split_return"}
    /\ CurrentFile.size_mb > target_size_mb + size_tolerance_mb

\* C1: for every oversized source file, total duration and silence map the
\* chunk ranges are contiguous and ordered: the first starts at 0, each starts
\* where the one before ends, each has start < end, and on return the last
\* ends at the total duration (no chunk at all for an empty timeline).
C1_ChunksPartitionTimeline ==
    Splitting =>
        /\ \A k \in 1..Len(chunk_ranges) :
              /\ chunk_ranges[k].start < chunk_ranges[k].end
              /\ chunk_ranges[k].start = IF k = 1 THEN 0 ELSE chunk_ranges[k - 1].end
        /\ pc = "split_return" =>
              IF chunk_ranges = <<>> THEN total_duration_ms = 0
              ELSE Last(chunk_ranges).end = total_duration_ms

\* the 60 s scenario: 40 MB source (target chunk duration 30000 ms), one
\* silence interval [29800, 30200)
ScenarioSplit ==
    /\ Splitting
    /\ file_size = 40
    /\ total_duration_ms = ScenarioDuration
    /\ target_chunk_duration = 30000
    /\ silence_periods = << <<29800, 30200>> >>

Ranges(chunks) == [k \in 1..Len(chunks) |-> <<chunks[k].start, chunks[k].end>>]

\* C2 as stated: the scenario returns exactly the chunks [0, 29800) and
\* [29800, 60000).
C2_ScenarioTwoChunks ==
    (ScenarioSplit /\ pc = "split_return") =>
        Ranges(chunk_ranges) = << <<0, 29800>>, <<29800, 60000>> >>

\* C2 as amended: the scenario returns exactly three chunks, [0, 29800),
\* [29800, 59800) and [59800, 60000): the second chunk's ideal end 59800 is
\* short of the total, no silence starts after 29800, so the cut falls at 59800.
C2_ScenarioThreeChunks ==
    (ScenarioSplit /\ pc = "split_return") =>
        Ranges(chunk_ranges) = << <<0, 29800>>, <<29800, 59800>>, <<59800, 60000>> >>

C2_Witness == ScenarioSplit /\ pc = "split_return"

\* C10: a chunk that ends at the start of a silence interval has an estimated
\* size (end - start) * file_size / total_duration_ms, both durations in ms,
\* of at most target_size_mb + size_tolerance_mb.
C10_SilenceCutWithinBudget ==
    Splitting =>
        \A k \in 1..Len(chunk_ranges) :
            chunk_ranges[k].by = "silence" =>
                (chunk_ranges[k].end - chunk_ranges[k].start) * file_size
                    <= (target_size_mb + size_tolerance_mb) * total_duration_ms

\* C11: for every file size above the budget, every total duration and every
\* silence map, each iteration of the cut-point loop moves the start position
\* strictly forward (so the loop reaches the total duration and ends), also
\* when the floored target chunk duration is 0.
C11_StartStrictlyIncreases ==
    [][(pc = "split_loop" /\ pc' = "split_loop") => start_pos' > start_pos]_vars

-----------------------------------------------------------------------------
(* Specification of detect_silence alone: one call on one timeline *)

SilenceInit ==
    /\ pc = "detect"
    /\ audio_paths = <<>>
    /\ file_index = 0
    /\ IdleDriver
    /\ file_size = 0
    /\ total_duration_ms \in 0..MaxDuration
    /\ target_chunk_duration = 0
    /\ non_silent_ranges \in NonSilentLists(total_duration_ms)
    /\ silence_periods = <<>>
    /\ start_pos = 0
    /\ current_chunk = 1
    /\ chunk_paths = <<>>
    /\ chunk_ranges = <<>>

\* the call detect_silence(audio, ...), main.py 106-111
DetectSilence ==
    /\ pc = "detect"
    /\ silence_periods' = detect_silence(total_duration_ms, non_silent_ranges)
    /\ pc' = "detected"
    /\ UNCHANGED <<driverVars, storeVars, clientVars, result, now, failures,
                   file_size, total_duration_ms, target_chunk_duration,
                   non_silent_ranges, start_pos, current_chunk, chunk_paths,
                   chunk_ranges, loopVars, histVars>>

SilenceNext == DetectSilence

SpecSilence == SilenceInit /\ [][SilenceNext]_vars

InRange(t, r) == r[1] <= t /\ t < r[2]
InSome(t, ranges) == \E k \in 1..Len(ranges) : InRange(t, ranges[k])

\* sorted by start, pairwise non-overlapping, inside the timeline, and the
\* complement of the voiced ranges in [0, total_duration_ms)
SilenceIsComplement ==
    /\ \A k \in 1..(Len(silence_periods) - 1) :
          /\ silence_periods[k][1] < silence_periods[k + 1][1]
          /\ silence_periods[k][2] <= silence_periods[k + 1][1]
    /\ \A k \in 1..Len(silence_periods) :
          /\ 0 <= silence_periods[k][1]
          /\ silence_periods[k][1] <= silence_periods[k][2]
          /\ silence_periods[k][2] <= total_duration_ms
    /\ \A t \in 0..(total_duration_ms - 1) :
          InSome(t, silence_periods) <=> ~InSome(t, non_silent_ranges)
    /\ non_silent_ranges = <<>> =>
          silence_periods = << <<0, total_duration_ms>> >>

SilenceNonEmpty ==
    \A k \in 1..Len(silence_periods) : silence_periods[k][1] < silence_periods[k][2]

\* consecutive voiced ranges are separated by a gap
VoicedSeparated ==
    \A k \in 1..(Len(non_silent_ranges) - 1) :
        non_silent_ranges[k][2] < non_silent_ranges[k + 1][1]

-----------------------------------------------------------------------------
(* merge_transcripts, main.py 221-271 *)

\* A transcript is a dict (a function on its keys) or a plain string, written
\* [str |-> text].  A text is the sequence of its words and separators.
IsStr(t) == "str" \in DOMAIN t

RECURSIVE Join(_, _)
\* sep.join(texts)
Join(texts, sep) ==
    IF texts = <<>> THEN <<>>
    ELSE IF Len(texts) = 1 THEN texts[1]
    ELSE texts[1] \o sep \o Join(Tail(texts), sep)

\* str(x) of a non-negative float counted in tenths: "15.0"
FloatStr(tenths) == Decimal(tenths \div 10) \o <<".">> \o <<Digit(tenths % 10)>>

\* time_offset left where it was, a plausible slip at main.py 263
OffsetAfter_mut_stuck(time_offset, chunk_duration) == time_offset

\* time_offset += chunk_duration, main.py 263
OffsetAfter(time_offset, chunk_duration) == time_offset + chunk_duration

\* adjusted_segment, main.py 257-259
AdjustedSegment(segment, time_offset) ==
    [key \in DOMAIN segment \cup {"start", "end"} |->
        IF key = "start" THEN Get(segment, "start", 0) + time_offset
        ELSE IF key = "end" THEN Get(segment, "end", 0) + time_offset
        ELSE segment[key]]

RECURSIVE MergeLoop(_, _, _, _)
\* the for loop of main.py 241-263, from its k-th transcript on
MergeLoop(ts, k, merged, time_offset) ==
    IF k > Len(ts) THEN merged
    ELSE IF IsStr(ts[k])
    THEN MergeLoop(ts, k + 1,
                   [merged EXCEPT !.text = Append(@, ts[k].str)], time_offset)
    ELSE LET chunk_duration == Get(ts[k], "duration", 0)
             segments == Get(ts[k], "segments", <<>>)
             adjusted == [j \in 1..Len(segments) |->
                             AdjustedSegment(segments[j], time_offset)]
         IN  MergeLoop(ts, k + 1,
                       [merged EXCEPT !.text = Append(@, Get(ts[k], "text", <<>>)),
                                      !.duration = @ + chunk_duration,
                                      !.segments = @ \o adjusted],
                       OffsetAfter(time_offset, chunk_duration))

\* merge_transcripts(transcripts); a first transcript that is a plain string
\* has no .get, and main.py 231 raises
merge_transcripts(ts) ==
    IF ts = <<>> THEN None
    ELSE IF IsStr(ts[1]) THEN Raised("AttributeError")
    ELSE LET merged == MergeLoop(ts, 1,
                           [text |-> <<>>,
                            language |-> Get(ts[1], "language", "mixed"),
                            task |-> Get(ts[1], "task", "transcribe"),
                            duration |-> 0,
                            segments |-> <<>>], 0)
         IN  [merged EXCEPT !.text = Join(@, <<" ">>),
                            !.duration = FloatStr(@)]

-----------------------------------------------------------------------------
(* Specification of merge_transcripts alone: one call on one list *)

Seg(a, b) == [start |-> a, end |-> b]

FragmentTexts == {<<"hello">>, <<"world">>}
FragmentDurations == {50, 100}
FragmentSegments == {<< Seg(0, 95) >>, << Seg(0, 40) >>, << Seg(0, 20), Seg(25, 40) >>}

\* what the list may hold: dicts with or without duration and segments, and
\* a plain string
Fragments ==
    {[text |-> t] : t \in FragmentTexts}
    \cup {[text |-> t, duration |-> d] : t \in FragmentTexts, d \in FragmentDurations}
    \cup {[text |-> t, segments |-> g] : t \in {<<"world">>}, g \in FragmentSegments}
    \cup {[text |-> t, duration |-> d, segments |-> g] :
            t \in FragmentTexts, d \in FragmentDurations, g \in FragmentSegments}
    \cup {[str |-> <<"hello">>]}

MergeInit ==
    /\ pc = "merge"
    /\ audio_paths = <<>>
    /\ file_index = 0
    /\ IdleSplit
    /\ data_chunks = {}
    /\ output_chunks = {}
    /\ output_files = {}
    /\ submitted = {}
    /\ api_calls = 0
    /\ result = None
    /\ now = 0
    /\ failures = 0
    /\ i = 0
    /\ transcripts \in UNION {[1..n -> Fragments] : n \in 0..MaxFragments}
    /\ outcomes = <<>>
    /\ path = "none"

\* the call merge_transcripts(transcripts)
Merge ==
    /\ pc = "merge"
    /\ result' = merge_transcripts(transcripts)
    /\ pc' = "merged"
    /\ UNCHANGED <<driverVars, storeVars, clientVars, now, failures, splitVars,
                   loopVars, histVars>>

MergeNext == Merge

SpecMerge == MergeInit /\ [][MergeNext]_vars

RECURSIVE SumDurations(_, _)
\* the durations of the first n fragments, a missing one counting as 0
SumDurations(ts, n) ==
    IF n = 0 THEN 0
    ELSE SumDurations(ts, n - 1)
         + (IF "duration" \in DOMAIN ts[n] THEN ts[n].duration ELSE 0)

RECURSIVE CountSegments(_, _)
\* the number of segments of the first n fragments
CountSegments(ts, n) ==
    IF n = 0 THEN 0
    ELSE CountSegments(ts, n - 1)
         + (IF "segments" \in DOMAIN ts[n] THEN Len(ts[n].segments) ELSE 0)

AllStructured(ts) == \A k \in 1..Len(ts) : ~IsStr(ts[k])

ExampleFragments ==
    << [text |-> <<"hello">>, duration |-> 100, segments |-> << Seg(0, 95) >>],
       [text |-> <<"world">>, duration |-> 50, segments |-> << Seg(0, 40) >>] >>

\* C4: for every list of structured fragments, every segment of fragment k is
\* in the merged output, in order, with start and end moved by the sum of the
\* durations of fragments 1..k-1 (a missing duration counting as 0); fragments
\* {duration 10, segment [0, 9.5]} and {duration 5, segment [0, 4]} merge to
\* segments [0, 9.5] and [10, 14], text "hello world", duration 15.
C4_SegmentsRebased ==
    (pc = "merged" /\ transcripts # <<>> /\ AllStructured(transcripts)) =>
        /\ "segments" \in DOMAIN result
        /\ Len(result.segments) = CountSegments(transcripts, Len(transcripts))
        /\ \A k \in 1..Len(transcripts) :
              "segments" \in DOMAIN transcripts[k] =>
                  \A j \in 1..Len(transcripts[k].segments) :
                      LET out == result.segments[CountSegments(transcripts, k - 1) + j]
                          seg == transcripts[k].segments[j]
                      IN  /\ out.start = seg.start + SumDurations(transcripts, k - 1)
                          /\ out.end = seg.end + SumDurations(transcripts, k - 1)
        /\ transcripts = ExampleFragments =>
              /\ result.segments = << Seg(0, 95), Seg(100, 140) >>
              /\ result.text = <<"hello", " ", "world">>
              /\ result.duration = <<"1", "5", ".", "0">>

\* the example has been merged
C4_Witness ==
    /\ pc = "merged"
    /\ transcripts = ExampleFragments
    /\ result # None

-----------------------------------------------------------------------------
(* The fragment store and the chunk directory, main.py 202-219 and 273-330 *)

Str_of == <<"o", "f">>
Str_extract == <<"_", "e", "x", "t", "r", "a", "c", "t", "_">>
Str_txt == <<".", "t", "x", "t">>

\* datetime.now().strftime("%Y%m%d_%H%M%S") of a run that stays within one
\* minute: only the two digits of the seconds field change
Timestamp(t) == <<Digit((t \div 10) % 10), Digit(t % 10)>>

\* f"{base_name}_chunk{chunk_number}of{total_chunks}_{timestamp}.json", main.py 213
ChunkJsonName(base, number, total, t) ==
    base \o Str_chunk \o Decimal(number) \o Str_of \o Decimal(total)
         \o <<"_">> \o Timestamp(t) \o Str_json

\* f"{base_name}_extract_{timestamp}.txt", main.py 461
ExtractTxtName(base, t) == base \o Str_extract \o Timestamp(t) \o Str_txt

\* the file of a directory with the given name
FileAt(dir, name) == CHOOSE f \in dir : f.name = name

\* open(path, 'w') and the dump: the file is created or replaced
Written(dir, file) == {f \in dir : f.name # file.name} \cup {file}

\* the names find_existing_json_chunks and find_existing_chunks return, in the
\* order of sorted(os.listdir(dir)); <<>> stands for None
ExistingWithSuffix(dir, audio_filename, suffix) ==
    SortedNames({f.name : f \in {g \in dir :
        /\ StartsWith(g.name, BaseName(audio_filename) \o Str_chunk)
        /\ EndsWith(g.name, suffix)}})

find_existing_json_chunks(audio_filename) ==
    ExistingWithSuffix(output_chunks, audio_filename, Str_json)

find_existing_chunks(audio_filename) ==
    ExistingWithSuffix(data_chunks, audio_filename, Str_mp3)

-----------------------------------------------------------------------------
(* transcribe_audio, main.py 53-84 *)

Exists(p) == p.dir = "data" \/ \E f \in data_chunks : f.name = p.name

SizeOf(p) == IF p.dir = "data" THEN CurrentFile.size_mb
             ELSE FileAt(data_chunks, p.name).size_mb

\* what the audio holds: 0 for a whole source file, the chunk's number at the
\* split for a chunk
ContentOf(p) == IF p.dir = "data" THEN 0 ELSE FileAt(data_chunks, p.name).content

\* transcript.model_dump() of the response to WHISPER_RESPONSE_FORMAT "json":
\* the text alone; the text of a piece of audio names the piece
TranscriptDict(content) == [text |-> Decimal(content)]

\* the ways one transcription can go: "missing" (main.py 56-58), "load_error"
\* (61-67), "api_error" (the create call raises, 82-84), "ok"; "save_error" is
\* "ok" followed by a failure of save_chunk_transcription
TranscribeOutcomes(p) ==
    IF Exists(p) THEN {"ok", "load_error", "api_error"} ELSE {"missing"}

\* the file reached client.audio.transcriptions.create
Submits(outcome) == outcome \in {"ok", "api_error", "save_error"}

\* the files sent so far: main.py 70-79 sends whatever loads, of any size
SubmittedAfter(sent, outcome, size) ==
    IF Submits(outcome) THEN sent \cup {size} ELSE sent

\* the transcript appended although its save raised
TranscriptsAfter_mut_keep_unsaved(ts, outcome, dict) ==
    IF outcome \in {"ok", "save_error"} THEN Append(ts, dict) ELSE ts

\* transcripts.append(transcript_dict) comes after the save, inside the try:
\* main.py 416-423 and 372-379
TranscriptsAfter(ts, outcome, dict) ==
    IF outcome = "ok" THEN Append(ts, dict) ELSE ts

-----------------------------------------------------------------------------
(* transcribe_large_audio, main.py 332-428 *)

\* main.py 337-354: fragments exist, load and merge them
JsonResume ==
    /\ pc = "call"
    /\ LET names == find_existing_json_chunks(CurrentFile.name)
       IN  /\ names # <<>>
           /\ transcripts' = [k \in 1..Len(names) |->
                                 FileAt(output_chunks, names[k]).content]
    /\ result' = merge_transcripts(transcripts')
    /\ path' = "json"
    /\ pc' = "returned"
    /\ UNCHANGED <<driverVars, storeVars, clientVars, now, failures, splitVars,
                   i, outcomes>>

\* main.py 357-361: no fragment, but chunk audio exists
Mp3ResumeBegin ==
    /\ pc = "call"
    /\ find_existing_json_chunks(CurrentFile.name) = <<>>
    /\ LET names == find_existing_chunks(CurrentFile.name)
       IN  /\ names # <<>>
           /\ chunk_paths' = [k \in 1..Len(names) |->
                                 [dir |-> "chunks", name |-> names[k]]]
    /\ transcripts' = <<>>
    /\ i' = 0
    /\ path' = "mp3"
    /\ pc' = "mp3_loop"
    /\ UNCHANGED <<driverVars, storeVars, clientVars, result, now, failures,
                   file_size, total_duration_ms, target_chunk_duration,
                   non_silent_ranges, silence_periods, start_pos, current_chunk,
                   chunk_ranges, outcomes>>

\* main.py 386-388: nothing to resume from, split
FreshCall ==
    /\ pc = "call"
    /\ find_existing_json_chunks(CurrentFile.name) = <<>>
    /\ find_existing_chunks(CurrentFile.name) = <<>>
    /\ path' = "fresh"
    /\ pc' = "split"
    /\ UNCHANGED <<driverVars, storeVars, clientVars, result, now, failures,
                   splitVars, loopVars, outcomes>>

\* one iteration of a transcription loop: transcribe_audio on the next path,
\* then save_chunk_transcription and the append
LoopStep(at) ==
    /\ pc = at
    /\ i < Len(chunk_paths)
    /\ LET p == chunk_paths[i + 1]
           dict == TranscriptDict(ContentOf(p))
           file == [name |-> ChunkJsonName(BaseName(CurrentFile.name), i + 1,
                                           Len(chunk_paths), now),
                    content |-> dict]
       IN  \E outcome \in TranscribeOutcomes(p) \cup {"save_error"} :
              /\ outcome = "save_error" => Exists(p)
              /\ outcome \notin {"ok", "missing"} => failures < MaxFailures
              /\ failures' = IF outcome \in {"ok", "missing"} THEN failures
                             ELSE failures + 1
              /\ submitted' = SubmittedAfter(submitted, outcome, SizeOf(p))
              /\ api_calls' = IF Submits(outcome) THEN api_calls + 1 ELSE api_calls
              /\ output_chunks' = IF outcome = "ok" THEN Written(output_chunks, file)
                                  ELSE output_chunks
              /\ transcripts' = TranscriptsAfter(transcripts, outcome, dict)
              /\ outcomes' = Append(outcomes, outcome)
    /\ i' = i + 1
    /\ UNCHANGED <<pc, driverVars, data_chunks, result, now, splitVars, path>>

\* after the loop: merge what was collected, main.py 381-384 and 425-428
LoopFinish(at) ==
    /\ pc = at
    /\ i = Len(chunk_paths)
    /\ result' = IF transcripts # <<>> THEN merge_transcripts(transcripts) ELSE None
    /\ pc' = "returned"
    /\ UNCHANGED <<driverVars, storeVars, clientVars, now, failures, splitVars,
                   loopVars, histVars>>

\* main.py 362-379
Mp3ResumeStep == LoopStep("mp3_loop")

\* main.py 381-384
Mp3ResumeFinish == LoopFinish("mp3_loop")

\* main.py 390-399: split_audio_file returned one path, transcribe it
SingleChunk ==
    /\ pc = "split_return"
    /\ Len(chunk_paths) = 1
    /\ LET p == chunk_paths[1]
       IN  \E outcome \in TranscribeOutcomes(p) :
              /\ outcome \notin {"ok", "missing"} => failures < MaxFailures
              /\ failures' = IF outcome \in {"ok", "missing"} THEN failures
                             ELSE failures + 1
              /\ submitted' = SubmittedAfter(submitted, outcome, SizeOf(p))
              /\ api_calls' = IF Submits(outcome) THEN api_calls + 1 ELSE api_calls
              /\ result' = IF outcome = "ok" THEN TranscriptDict(ContentOf(p))
                           ELSE None
              /\ outcomes' = <<outcome>>
    /\ path' = "single"
    /\ pc' = "returned"
    /\ UNCHANGED <<driverVars, storeVars, now, splitVars, loopVars>>

\* main.py 401-403
FreshLoopBegin ==
    /\ pc = "split_return"
    /\ Len(chunk_paths) # 1
    /\ transcripts' = <<>>
    /\ i' = 0
    /\ pc' = "fresh_loop"
    /\ UNCHANGED <<driverVars, storeVars, clientVars, result, now, failures,
                   splitVars, histVars>>

\* main.py 405-423
FreshStep == LoopStep("fresh_loop")

\* main.py 425-428
FreshFinish == LoopFinish("fresh_loop")

-----------------------------------------------------------------------------
(* The driver, main.py 470-516 *)

\* cleanup_chunk_folders and get_audio_files_from_data, main.py 496-505
Cleanup ==
    /\ pc = "cleanup"
    /\ data_chunks' = {}
    /\ output_chunks' = {}
    /\ pc' = IF audio_paths = <<>> THEN "exit" ELSE "next_file"
    /\ UNCHANGED <<driverVars, clientVars, result, now, failures, splitVars,
                   loopVars, histVars>>

\* the for loop of main.py 508-512 takes the next path, or ends
NextFile ==
    /\ pc = "next_file"
    /\ IF file_index < Len(audio_paths)
       THEN /\ file_index' = file_index + 1
            /\ pc' = "call"
       ELSE /\ file_index' = file_index
            /\ pc' = "exit"
    /\ result' = None
    /\ i' = 0
    /\ transcripts' = <<>>
    /\ outcomes' = <<>>
    /\ path' = "none"
    /\ UNCHANGED <<audio_paths, output_files, storeVars, clientVars, now,
                   failures, splitVars>>

\* main.py 514-516: save_processed_transcript; its failure is caught nowhere
SaveResult ==
    /\ pc = "returned"
    /\ IF result = None
       THEN /\ pc' = "next_file"
            /\ UNCHANGED <<output_files, failures>>
       ELSE \E saved \in BOOLEAN :
              /\ ~saved => failures < MaxFailures
              /\ failures' = IF saved THEN failures ELSE failures + 1
              /\ output_files' =
                    IF saved
                    THEN Written(output_files,
                                 [name |-> ExtractTxtName(BaseName(CurrentFile.name), now),
                                  content |-> Get(result, "text", <<>>)])
                    ELSE output_files
              /\ pc' = IF saved THEN "next_file" ELSE "crashed"
    /\ UNCHANGED <<audio_paths, file_index, storeVars, clientVars, result, now,
                   splitVars, loopVars, histVars>>

\* a second passes; the clock is read again at the next save
Tick ==
    /\ pc = "returned"
    /\ now < MaxClock
    /\ now' = now + 1
    /\ UNCHANGED <<pc, driverVars, storeVars, clientVars, result, failures,
                   splitVars, loopVars, histVars>>

-----------------------------------------------------------------------------
(* The whole run *)

Name_b_wav == <<"b", ".", "w", "a", "v">>

\* the source files a batch is drawn from: a long recording that splits into
\* ten chunks, an oversized file of the same base name that cannot be decoded,
\* a recording whose only silence is near its end, and a small file of the
\* same base name
Catalog ==
    {[name |-> Name_a_mp3, size_mb |-> 200, decodable |-> TRUE,
      duration_ms |-> 120000, non_silent |-> << <<0, 120000>> >>],
     [name |-> Name_a_wav, size_mb |-> 40, decodable |-> FALSE,
      duration_ms |-> 0, non_silent |-> <<>>],
     [name |-> Name_b_mp3, size_mb |-> 40, decodable |-> TRUE,
      duration_ms |-> 60000, non_silent |-> << <<0, 59000>> >>],
     [name |-> Name_b_wav, size_mb |-> 10, decodable |-> TRUE,
      duration_ms |-> 5, non_silent |-> <<>>]}

\* os.listdir(data) in any order, no name twice
Batches ==
    {b \in UNION {[1..n -> Catalog] : n \in 0..MaxBatch} :
        \A j, k \in 1..Len(b) : j # k => b[j].name # b[k].name}

\* what an earlier run may have left in the two chunk folders
StaleChunks == {[name |-> ChunkMp3Name(<<"a">>, 1), size_mb |-> 30, content |-> 1]}
StaleFragments == {[name |-> ChunkJsonName(<<"a">>, 1, 1, 0),
                    content |-> TranscriptDict(1)]}

Init ==
    /\ pc = "cleanup"
    /\ audio_paths \in Batches
    /\ file_index = 0
    /\ data_chunks \in SUBSET StaleChunks
    /\ output_chunks \in SUBSET StaleFragments
    /\ output_files = {}
    /\ submitted = {}
    /\ api_calls = 0
    /\ result = None
    /\ now = 0
    /\ failures = 0
    /\ i = 0
    /\ transcripts = <<>>
    /\ outcomes = <<>>
    /\ path = "none"
    /\ IdleSplit

Next ==
    \/ Cleanup
    \/ NextFile
    \/ JsonResume
    \/ Mp3ResumeBegin
    \/ Mp3ResumeStep
    \/ Mp3ResumeFinish
    \/ FreshCall
    \/ SplitBegin
    \/ SplitStep
    \/ SplitReturn
    \/ SingleChunk
    \/ FreshLoopBegin
    \/ FreshStep
    \/ FreshFinish
    \/ SaveResult
    \/ Tick

Spec == Init /\ [][Next]_vars

-----------------------------------------------------------------------------
(* One call of transcribe_large_audio on a file with nothing to resume from *)

\* what the files processed before it may have left in the two chunk folders:
\* chunks and fragments under another base name
LeftChunks == {[name |-> ChunkMp3Name(<<"c">>, 1), size_mb |-> 20, content |-> 1]}
LeftFragments == {[name |-> ChunkJsonName(<<"c">>, 1, 2, 0),
                   content |-> TranscriptDict(1)]}

CallInit ==
    /\ pc = "call"
    /\ audio_paths \in {<<f>> : f \in Catalog}
    /\ file_index = 1
    /\ data_chunks \in SUBSET LeftChunks
    /\ output_chunks \in SUBSET LeftFragments
    /\ output_files = {}
    /\ submitted = {}
    /\ api_calls = 0
    /\ result = None
    /\ now \in 0..MaxClock
    /\ failures = 0
    /\ i = 0
    /\ transcripts = <<>>
    /\ outcomes = <<>>
    /\ path = "none"
    /\ IdleSplit

CallNext ==
    \/ FreshCall
    \/ SplitBegin
    \/ SplitStep
    \/ SplitReturn
    \/ SingleChunk
    \/ FreshLoopBegin
    \/ FreshStep
    \/ FreshFinish

SpecCall == CallInit /\ [][CallNext]_vars

-----------------------------------------------------------------------------
(* Properties of the run *)

\* C3: no audio file of more than 25 MB is ever submitted to the
\* transcription client, be it an original file, a fresh chunk or a
\* rediscovered chunk.
C3_NoOversizeSubmission == \A size \in submitted : size <= ApiLimitMB

\* the call is made with fragments 1..N of the file's base name in the store,
\* one of each, for some N
StoreHoldsFragments(n) ==
    LET names == Range(find_existing_json_chunks(CurrentFile.name))
    IN  /\ Cardinality(names) = n
        /\ \A k \in 1..n : \E t \in 0..MaxClock :
              ChunkJsonName(BaseName(CurrentFile.name), k, n, t) \in names

\* fragment k of n of the file's base name, as stored
StoredFragment(k, n) ==
    LET name == CHOOSE x \in {ChunkJsonName(BaseName(CurrentFile.name), k, n, t) :
                                 t \in 0..MaxClock} :
                    \E f \in output_chunks : f.name = x
    IN  FileAt(output_chunks, name).content

\* C5: a call of transcribe_large_audio that finds fragments 1..N of the
\* file's base name in the store makes no client call, exports and writes
\* nothing, and returns the merge of fragments 1..N.
C5_ResumeFromFragments ==
    [][\A n \in 1..MaxChunks :
          (pc = "call" /\ StoreHoldsFragments(n)) =>
              /\ pc' = "returned"
              /\ api_calls' = api_calls
              /\ submitted' = submitted
              /\ data_chunks' = data_chunks
              /\ output_chunks' = output_chunks
              /\ result' = merge_transcripts([k \in 1..n |-> StoredFragment(k, n)])]_vars

\* the number of the chunk a fragment transcribes
ChunkOf(fragment) == CHOOSE n \in 0..(MaxChunks + 1) : Decimal(n) = fragment.text

\* the members of a set of numbers, ascending
Ascending(S) ==
    [n \in 1..Cardinality(S) |->
        CHOOSE x \in S : Cardinality({y \in S : y < x}) = n - 1]

\* a call that merges has returned
MergedCall ==
    /\ pc = "returned"
    /\ path \in {"json", "mp3", "fresh"}
    /\ transcripts # <<>>

\* C6: on every path that merges, and for every chunk count, the fragments
\* given to merge_transcripts are in ascending chunk order and the merged
\* text joins their texts in that order.
C6_FragmentsInChunkOrder ==
    MergedCall =>
        /\ \A k \in 1..(Len(transcripts) - 1) :
              ChunkOf(transcripts[k]) < ChunkOf(transcripts[k + 1])
        /\ result.text =
              Join([k \in 1..Len(transcripts) |->
                       Decimal(Ascending({ChunkOf(transcripts[j]) :
                                             j \in 1..Len(transcripts)})[k])],
                   <<" ">>)

\* C7: a failure while one file is processed never keeps the driver from the
\* files after it: the run does not die with files of the batch unprocessed.
C7_BatchSurvivesFailure == pc = "crashed" => file_index = Len(audio_paths)

\* a fresh split gave more than one chunk and every chunk has been attempted
FreshSplitDone ==
    /\ pc = "returned"
    /\ path = "fresh"
    /\ Len(chunk_paths) > 1

\* a fragment of chunk k is in the store under the file's base name
FragmentSaved(k) ==
    \E f \in output_chunks :
        /\ StartsWith(f.name, BaseName(CurrentFile.name) \o Str_chunk
                              \o Decimal(k) \o Str_of)
        /\ f.content = TranscriptDict(k)

\* the merge of the fragments of the chunks in S, in chunk order; None for none
MergeOfChunks(S) ==
    IF S = {} THEN None
    ELSE merge_transcripts([n \in 1..Cardinality(S) |-> TranscriptDict(Ascending(S)[n])])

\* C8 as stated: after a split into N > 1 chunks, a fragment is saved for
\* exactly the chunks whose transcription succeeded, and the result is the
\* merge of exactly those fragments in chunk order (None when all failed).
C8_MergeOfTranscribed ==
    FreshSplitDone =>
        LET transcribed == {k \in 1..Len(outcomes) :
                               outcomes[k] \in {"ok", "save_error"}}
        IN  /\ Len(outcomes) = Len(chunk_paths)
            /\ \A k \in 1..Len(chunk_paths) : FragmentSaved(k) <=> k \in transcribed
            /\ result = MergeOfChunks(transcribed)

\* C8 as amended: after a split into N > 1 chunks every chunk has been
\* attempted, a fragment is saved for exactly the chunks whose transcription
\* and save both succeeded, and the result is the merge of exactly those
\* fragments in chunk order (None when there is none); a chunk whose
\* transcription succeeded but whose fragment could not be saved is dropped
\* from the merge as well.
C8_MergeOfSaved ==
    FreshSplitDone =>
        LET saved == {k \in 1..Len(outcomes) : outcomes[k] = "ok"}
        IN  /\ Len(outcomes) = Len(chunk_paths)
            /\ \A k \in 1..Len(chunk_paths) : FragmentSaved(k) <=> k \in saved
            /\ result = MergeOfChunks(saved)

\* a transcription failed, a save failed, and a later chunk went through
C8_Witness ==
    /\ FreshSplitDone
    /\ \E j, k, m \in 1..Len(outcomes) :
          /\ j < m /\ k < m
          /\ outcomes[j] = "api_error"
          /\ outcomes[k] = "save_error"
          /\ outcomes[m] = "ok"

=============================================================================
